---- MODULE Spec2Model ----
(***************************************************************************)
(* Model of helpers.c of minigbm: per-plane bits-per-pixel, the            *)
(* single-allocation plane layout, the dumb-buffer create/destroy/map      *)
(* calls, the GEM close of shared handles and the handle reference table.  *)
(***************************************************************************)
EXTENDS Integers, Sequences, FiniteSets, TLC

VARIABLES ndebug,        \* TRUE when the build defines NDEBUG (assert() compiled out)
          bo,            \* struct bo: num_planes, handles, strides, sizes, offsets, total_size
          data,          \* struct map_info: length
          buffer_table,  \* drv->buffer_table: the set of <<handle, count>> entries
          refs,          \* history: the clamped reference counter of every handle
          pc,            \* "run", or "aborted" once an assert() has fired
          op,            \* name of the last call made
          args,          \* arguments of the last call
          ret,           \* value returned by the last call
          ioctls,        \* kernel requests issued by the last call, in order
          pre            \* bo, map_info and table as they were before the last call

vars == <<ndebug, bo, data, buffer_table, refs, pc, op, args, ret, ioctls, pre>>

(***************************************************************************)
(* Bounds                                                                  *)
(***************************************************************************)
MaxPlanes == 3      \* length of the per-plane arrays of struct bo
MaxHandle == 3      \* handles are 1..MaxHandle
MaxDim == 4         \* widths and heights are 1..MaxDim
MaxRef == 2         \* increments stop once a count has reached MaxRef
MaxLength == 6      \* mappings stop once map_info.length has passed MaxLength

Planes == 0 .. (MaxPlanes - 1)
Handles == 1 .. MaxHandle
Dims == 1 .. MaxDim
Errs == {-1, -2}                \* non-zero results of drmIoctl
Garbage == {0, 7}               \* what a read outside the arrays of struct bo may yield
MAP_FAILED == -1
NoArgs == [format |-> "NONE", width |-> 0, height |-> 0, flags |-> 0, plane |-> 0]

(***************************************************************************)
(* Formats: the case labels of drv_bpp_from_format                         *)
(***************************************************************************)
Bpp8Formats == {"C8", "R8", "RGB332", "BGR233", "YVU420"}
Bpp16Formats == {"RG88", "GR88", "XRGB4444", "XBGR4444", "RGBX4444", "BGRX4444",
                 "ARGB4444", "ABGR4444", "RGBA4444", "BGRA4444", "XRGB1555",
                 "XBGR1555", "RGBX5551", "BGRX5551", "ARGB1555", "ABGR1555",
                 "RGBA5551", "BGRA5551", "RGB565", "BGR565", "YUYV", "YVYU",
                 "UYVY", "VYUY"}
Bpp24Formats == {"RGB888", "BGR888"}
Bpp32Formats == {"XRGB8888", "XBGR8888", "RGBX8888", "BGRX8888", "ARGB8888",
                 "ABGR8888", "RGBA8888", "BGRA8888", "XRGB2101010", "XBGR2101010",
                 "RGBX1010102", "BGRX1010102", "ARGB2101010", "ABGR2101010",
                 "RGBA1010102", "BGRA1010102", "AYUV"}
KnownFormats == Bpp8Formats \cup {"NV12"} \cup Bpp16Formats \cup Bpp24Formats \cup Bpp32Formats
\* the formats the calls are tried with: one of every case group and one
\* code that is not a format
Formats == {"R8", "YVU420", "NV12", "RGB565", "RGB888", "XRGB8888", "BOGUS"}

drv_bpp_from_format(format, plane) ==
    IF format \in Bpp8Formats THEN 8
    ELSE IF format = "NV12" THEN (IF plane = 0 THEN 8 ELSE 16)
    ELSE IF format \in Bpp16Formats THEN 16
    ELSE IF format \in Bpp24Formats THEN 24
    ELSE IF format \in Bpp32Formats THEN 32
    ELSE 0

DIV_ROUND_UP(n, d) == (n + d - 1) \div d

drv_num_planes_from_format(format) ==
    IF format = "YVU420" THEN 3
    ELSE IF format = "NV12" THEN 2
    ELSE IF format \in KnownFormats THEN 1
    ELSE 0

drv_stride_from_format(format, width, plane) ==
    LET stride == width * DIV_ROUND_UP(drv_bpp_from_format(format, 0), 8)
    IN  IF plane # 0 /\ format = "YVU420" THEN stride \div 2 ELSE stride

drv_size_from_format(format, stride, height, plane) ==
    LET vertical_subsampling ==
            IF format \in {"YVU420", "NV12"} /\ plane # 0 THEN 2 ELSE 1
    IN  stride * DIV_ROUND_UP(height, vertical_subsampling)

(***************************************************************************)
(* drv_bo_from_format                                                      *)
(***************************************************************************)
\* LayoutPlane with the offset stored after it has been advanced
LayoutPlane_offset_after(b, format, width, height, p, offset) ==
    LET stride == drv_stride_from_format(format, width, p)
        size == drv_size_from_format(format, stride, height, p)
    IN  [b EXCEPT !.strides[p] = stride, !.sizes[p] = size, !.offsets[p] = offset + size]

\* one pass of the loop body for plane p, with the running offset
LayoutPlane(b, format, width, height, p, offset) ==
    LET stride == drv_stride_from_format(format, width, p)
        size == drv_size_from_format(format, stride, height, p)
    IN  [b EXCEPT !.strides[p] = stride, !.sizes[p] = size, !.offsets[p] = offset]

RECURSIVE LayoutLoop(_, _, _, _, _, _, _)
LayoutLoop(b, format, width, height, num_planes, p, offset) ==
    IF p < num_planes
    THEN LET nb == LayoutPlane(b, format, width, height, p, offset)
         IN  LayoutLoop(nb, format, width, height, num_planes, p + 1, offset + nb.sizes[p])
    ELSE b

\* the values bo->offsets[bo->num_planes - 1] + bo->sizes[bo->num_planes - 1]
\* can take; with num_planes = 0 the index wraps around and the read is
\* outside the arrays
TotalSizes(b) ==
    IF b.num_planes = 0
    THEN {x + y : x \in Garbage, y \in Garbage}
    ELSE {b.offsets[b.num_planes - 1] + b.sizes[b.num_planes - 1]}

\* drv_bo_from_format with the loop running one plane too far
drv_bo_from_format_one_more(b, width, height, format) ==
    LET num_planes == drv_num_planes_from_format(format)
        nb == LayoutLoop(b, format, width, height, num_planes + 1, 0, 0)
    IN  {[nb EXCEPT !.total_size = t] : t \in TotalSizes(nb)}

\* the buffer objects the call can leave behind (it always returns 0)
drv_bo_from_format(b, width, height, format) ==
    LET num_planes == drv_num_planes_from_format(format)
        nb == LayoutLoop(b, format, width, height, num_planes, 0, 0)
    IN  {[nb EXCEPT !.total_size = t] : t \in TotalSizes(nb)}

Snapshot == [bo |-> bo, length |-> data.length, table |-> buffer_table]

\* a buffer object is laid out once, by the backend that creates it
BoFromFormat ==
    /\ pc = "run"
    /\ op = "none"
    /\ \E format \in Formats, width \in Dims, height \in Dims :
         /\ op' = "drv_bo_from_format"
         /\ args' = [NoArgs EXCEPT !.format = format, !.width = width, !.height = height]
         /\ pre' = Snapshot
         /\ ioctls' = <<>>
         /\ IF drv_num_planes_from_format(format) = 0 /\ ~ndebug
            THEN /\ pc' = "aborted"
                 /\ UNCHANGED <<bo, ret>>
            ELSE /\ \E nb \in drv_bo_from_format(bo, width, height, format) : bo' = nb
                 /\ ret' = 0
                 /\ pc' = pc
    /\ UNCHANGED <<ndebug, data, buffer_table, refs>>

ZeroPlanes == [p \in Planes |-> 0]

InitCommon ==
    /\ ndebug \in BOOLEAN
    /\ pc = "run"
    /\ op = "none"
    /\ args = NoArgs
    /\ ret = 0
    /\ ioctls = <<>>
    /\ buffer_table = {}
    /\ refs = [h \in Handles |-> 0]
    /\ pre = Snapshot

ZeroBo == [num_planes |-> 0, handles |-> [p \in Planes |-> 1],
           strides |-> ZeroPlanes, sizes |-> ZeroPlanes, offsets |-> ZeroPlanes,
           total_size |-> 0]

\* the geometries a buffer object may carry into a call: all zero, or what
\* an earlier layout of the same storage left in it
StaleBos ==
    {ZeroBo} \cup UNION {drv_bo_from_format([ZeroBo EXCEPT !.num_planes = 1], 2, 2, f) :
                            f \in Formats}

\* a buffer object whose plane count was set by its creator
InitLayout ==
    /\ \E n \in 0 .. MaxPlanes, b \in StaleBos : bo = [b EXCEPT !.num_planes = n]
    /\ data = [length |-> 0]
    /\ InitCommon

NextLayout == BoFromFormat

SpecLayout == InitLayout /\ [][NextLayout]_vars

(***************************************************************************)
(* drv_gem_bo_destroy                                                      *)
(***************************************************************************)
\* FirstWithHandle that looks at the plane just before only
FirstWithHandle_previous_only(b, plane, i) ==
    IF plane > 0 /\ b.handles[plane - 1] = b.handles[plane] THEN plane - 1 ELSE plane

\* the inner loop: the value of i when it ends, the first plane before
\* `plane` with the same handle, or `plane` when there is none
RECURSIVE FirstWithHandle(_, _, _)
FirstWithHandle(b, plane, i) ==
    IF i < plane /\ b.handles[i] # b.handles[plane]
    THEN FirstWithHandle(b, plane, i + 1)
    ELSE i

GemClose(handle, r) == [req |-> "GEM_CLOSE", handle |-> handle, ret |-> r]

\* GemClosePlane keeping the error of the first close that failed
GemClosePlane_keep_first(acc, b, plane, r) ==
    IF FirstWithHandle(b, plane, 0) # plane
    THEN acc
    ELSE [closes |-> Append(acc.closes, GemClose(b.handles[plane], r)),
          error |-> IF r # 0 /\ acc.error = 0 THEN r ELSE acc.error]

\* one pass of the outer loop body; r is what drmIoctl returns if called
GemClosePlane(acc, b, plane, r) ==
    IF FirstWithHandle(b, plane, 0) # plane
    THEN acc
    ELSE [closes |-> Append(acc.closes, GemClose(b.handles[plane], r)),
          error |-> IF r # 0 THEN r ELSE acc.error]

RECURSIVE GemLoop(_, _, _, _)
GemLoop(acc, b, resp, plane) ==
    IF plane < b.num_planes
    THEN GemLoop(GemClosePlane(acc, b, plane, resp[plane]), b, resp, plane + 1)
    ELSE acc

\* resp[plane] is the result of the close issued for that plane
drv_gem_bo_destroy(b, resp) == GemLoop([closes |-> <<>>, error |-> 0], b, resp, 0)

GemBoDestroy ==
    /\ pc = "run"
    /\ \E resp \in [Planes -> {0} \cup Errs] :
         LET r == drv_gem_bo_destroy(bo, resp)
         IN  /\ ioctls' = r.closes
             /\ ret' = r.error
    /\ op' = "drv_gem_bo_destroy"
    /\ args' = NoArgs
    /\ pre' = Snapshot
    /\ UNCHANGED <<ndebug, bo, data, buffer_table, refs, pc>>

\* a buffer object whose planes carry any handles
InitGem ==
    /\ \E n \in 0 .. MaxPlanes, hs \in [Planes -> Handles] :
         bo = [ZeroBo EXCEPT !.num_planes = n, !.handles = hs]
    /\ data = [length |-> 0]
    /\ InitCommon

NextGem == GemBoDestroy

SpecGem == InitGem /\ [][NextGem]_vars

(***************************************************************************)
(* The reference table: drmHash* as the three calls use them               *)
(***************************************************************************)
HasKey(t, key) == \E e \in t : e[1] = key
drmHashLookup(t, key) == (CHOOSE e \in t : e[1] = key)[2]
drmHashDelete(t, key) == {e \in t : e[1] # key}
drmHashInsert(t, key, value) == IF HasKey(t, key) THEN t ELSE t \cup {<<key, value>>}

drv_get_reference_count(t, b, plane) ==
    IF HasKey(t, b.handles[plane]) THEN drmHashLookup(t, b.handles[plane]) ELSE 0

drv_increment_reference_count(t, b, plane) ==
    LET num == drv_get_reference_count(t, b, plane)
    IN  drmHashInsert(drmHashDelete(t, b.handles[plane]), b.handles[plane], num + 1)

\* drv_decrement_reference_count without the test of num
drv_decrement_reference_count_no_floor(t, b, plane) ==
    LET num == drv_get_reference_count(t, b, plane)
    IN  drmHashInsert(drmHashDelete(t, b.handles[plane]), b.handles[plane], num - 1)

\* drv_decrement_reference_count storing 0 again when num is 0
drv_decrement_reference_count_store_zero(t, b, plane) ==
    LET num == drv_get_reference_count(t, b, plane)
        deleted == drmHashDelete(t, b.handles[plane])
    IN  drmHashInsert(deleted, b.handles[plane], IF num > 0 THEN num - 1 ELSE 0)

drv_decrement_reference_count(t, b, plane) ==
    LET num == drv_get_reference_count(t, b, plane)
        deleted == drmHashDelete(t, b.handles[plane])
    IN  IF num > 0 THEN drmHashInsert(deleted, b.handles[plane], num - 1) ELSE deleted

Increment ==
    /\ pc = "run"
    /\ \E plane \in 0 .. (bo.num_planes - 1) :
         /\ drv_get_reference_count(buffer_table, bo, plane) < MaxRef
         /\ buffer_table' = drv_increment_reference_count(buffer_table, bo, plane)
         /\ refs' = [refs EXCEPT ![bo.handles[plane]] = @ + 1]
         /\ args' = [NoArgs EXCEPT !.plane = plane]
    /\ op' = "drv_increment_reference_count"
    /\ pre' = Snapshot
    /\ UNCHANGED <<ndebug, bo, data, pc, ret, ioctls>>

Decrement ==
    /\ pc = "run"
    /\ \E plane \in 0 .. (bo.num_planes - 1) :
         /\ buffer_table' = drv_decrement_reference_count(buffer_table, bo, plane)
         /\ refs' = [refs EXCEPT ![bo.handles[plane]] = IF @ > 0 THEN @ - 1 ELSE 0]
         /\ args' = [NoArgs EXCEPT !.plane = plane]
    /\ op' = "drv_decrement_reference_count"
    /\ pre' = Snapshot
    /\ UNCHANGED <<ndebug, bo, data, pc, ret, ioctls>>

\* an empty table and a buffer object whose planes carry any handles
InitRef ==
    /\ \E n \in 1 .. MaxPlanes, hs \in [Planes -> Handles] :
         bo = [ZeroBo EXCEPT !.num_planes = n, !.handles = hs]
    /\ data = [length |-> 0]
    /\ InitCommon

NextRef == Increment \/ Decrement

SpecRef == InitRef /\ [][NextRef]_vars

(***************************************************************************)
(* drv_dumb_bo_create, drv_dumb_bo_destroy                                 *)
(***************************************************************************)
Pitches == {4, 8}               \* pitches the kernel may answer with
KernelSizes == {16, 32}         \* sizes the kernel may answer with
CreateResps == [ret : {0} \cup Errs, handle : Handles, pitch : Pitches, size : KernelSizes]

\* drv_dumb_bo_create handing the caller's flags to the kernel
drv_dumb_bo_create_caller_flags(b, width, height, format, flags, resp) ==
    LET create_dumb == [req |-> "CREATE_DUMB", height |-> height, width |-> width,
                        bpp |-> drv_bpp_from_format(format, 0), flags |-> flags,
                        resp |-> resp]
    IN  IF resp.ret # 0
        THEN [ioctls |-> <<create_dumb>>, ret |-> resp.ret, bo |-> b]
        ELSE [ioctls |-> <<create_dumb>>, ret |-> 0,
              bo |-> [b EXCEPT !.handles[0] = resp.handle, !.offsets[0] = 0,
                               !.sizes[0] = resp.size, !.total_size = resp.size,
                               !.strides[0] = resp.pitch]]

\* resp is what the kernel answers to DRM_IOCTL_MODE_CREATE_DUMB
drv_dumb_bo_create(b, width, height, format, flags, resp) ==
    LET create_dumb == [req |-> "CREATE_DUMB", height |-> height, width |-> width,
                        bpp |-> drv_bpp_from_format(format, 0), flags |-> 0,
                        resp |-> resp]
    IN  IF resp.ret # 0
        THEN [ioctls |-> <<create_dumb>>, ret |-> resp.ret, bo |-> b]
        ELSE [ioctls |-> <<create_dumb>>, ret |-> 0,
              bo |-> [b EXCEPT !.handles[0] = resp.handle, !.offsets[0] = 0,
                               !.sizes[0] = resp.size, !.total_size = resp.size,
                               !.strides[0] = resp.pitch]]

\* a buffer object is created once
DumbBoCreate ==
    /\ pc = "run"
    /\ op = "none"
    /\ \E format \in Formats, width \in Dims, height \in Dims, flags \in {0, 1} :
         /\ op' = "drv_dumb_bo_create"
         /\ args' = [NoArgs EXCEPT !.format = format, !.width = width,
                                   !.height = height, !.flags = flags]
         /\ pre' = Snapshot
         /\ IF drv_num_planes_from_format(format) # 1 /\ ~ndebug
            THEN /\ pc' = "aborted"
                 /\ ioctls' = <<>>
                 /\ UNCHANGED <<bo, ret>>
            ELSE \E resp \in CreateResps :
                   LET r == drv_dumb_bo_create(bo, width, height, format, flags, resp)
                   IN  /\ bo' = r.bo
                       /\ ret' = r.ret
                       /\ ioctls' = r.ioctls
                       /\ pc' = pc
    /\ UNCHANGED <<ndebug, data, buffer_table, refs>>

\* r is the result of DRM_IOCTL_MODE_DESTROY_DUMB
drv_dumb_bo_destroy(b, r) ==
    [ioctls |-> <<[req |-> "DESTROY_DUMB", handle |-> b.handles[0], ret |-> r]>>,
     ret |-> IF r # 0 THEN r ELSE 0]

\* the buffer object that was created is destroyed once
DumbBoDestroy ==
    /\ pc = "run"
    /\ op = "drv_dumb_bo_create" /\ ret = 0
    /\ \E r \in {0} \cup Errs :
         LET d == drv_dumb_bo_destroy(bo, r)
         IN  /\ ioctls' = d.ioctls
             /\ ret' = d.ret
    /\ op' = "drv_dumb_bo_destroy"
    /\ args' = NoArgs
    /\ pre' = Snapshot
    /\ UNCHANGED <<ndebug, bo, data, buffer_table, refs, pc>>

\* the storage of a buffer object with one plane, zeroed or used before
InitCreate ==
    /\ \E b \in StaleBos : bo = [b EXCEPT !.num_planes = 1]
    /\ data = [length |-> 0]
    /\ InitCommon

NextCreate == DumbBoCreate \/ DumbBoDestroy

SpecCreate == InitCreate /\ [][NextCreate]_vars

(***************************************************************************)
(* drv_dumb_bo_map                                                         *)
(***************************************************************************)
MapOffsets == {0, 4096}         \* offsets the kernel may answer MAP_DUMB with
MapAddrs == {8192}              \* addresses of mappings that succeeded

\* the loop over the planes: data->length after it
RECURSIVE MapLength(_, _, _, _)
MapLength(b, plane, i, length) ==
    IF i < b.num_planes
    THEN MapLength(b, plane, i + 1,
                   IF b.handles[i] = b.handles[plane] THEN length + b.sizes[i] ELSE length)
    ELSE length

MapDumb(handle, r, offset) == [req |-> "MAP_DUMB", handle |-> handle, ret |-> r, offset |-> offset]
Mmap(length, offset, addr) == [req |-> "mmap", length |-> length, offset |-> offset, ret |-> addr]

\* drv_dumb_bo_map storing the sum instead of adding it
drv_dumb_bo_map_assign(b, d, plane, r, offset, addr) ==
    IF r # 0
    THEN [ioctls |-> <<MapDumb(b.handles[plane], r, offset)>>, ret |-> MAP_FAILED, data |-> d]
    ELSE LET length == MapLength(b, plane, 0, 0)
         IN  [ioctls |-> <<MapDumb(b.handles[plane], r, offset), Mmap(length, offset, addr)>>,
              ret |-> addr, data |-> [d EXCEPT !.length = length]]

\* drv_dumb_bo_map adding the sizes before it looks at the result of MAP_DUMB
drv_dumb_bo_map_add_first(b, d, plane, r, offset, addr) ==
    LET length == MapLength(b, plane, 0, d.length)
    IN  IF r # 0
        THEN [ioctls |-> <<MapDumb(b.handles[plane], r, offset)>>, ret |-> MAP_FAILED,
              data |-> [d EXCEPT !.length = length]]
        ELSE [ioctls |-> <<MapDumb(b.handles[plane], r, offset), Mmap(length, offset, addr)>>,
              ret |-> addr, data |-> [d EXCEPT !.length = length]]

\* r and offset are what the kernel answers to DRM_IOCTL_MODE_MAP_DUMB, addr
\* is what mmap returns
drv_dumb_bo_map(b, d, plane, r, offset, addr) ==
    IF r # 0
    THEN [ioctls |-> <<MapDumb(b.handles[plane], r, offset)>>, ret |-> MAP_FAILED, data |-> d]
    ELSE LET length == MapLength(b, plane, 0, d.length)
         IN  [ioctls |-> <<MapDumb(b.handles[plane], r, offset), Mmap(length, offset, addr)>>,
              ret |-> addr, data |-> [d EXCEPT !.length = length]]

DumbBoMap ==
    /\ pc = "run"
    /\ data.length <= MaxLength
    /\ \E plane \in 0 .. (bo.num_planes - 1), r \in {0} \cup Errs, offset \in MapOffsets,
          addr \in {MAP_FAILED} \cup MapAddrs :
         LET m == drv_dumb_bo_map(bo, data, plane, r, offset, addr)
         IN  /\ data' = m.data
             /\ ret' = m.ret
             /\ ioctls' = m.ioctls
             /\ args' = [NoArgs EXCEPT !.plane = plane]
    /\ op' = "drv_dumb_bo_map"
    /\ pre' = Snapshot
    /\ UNCHANGED <<ndebug, bo, buffer_table, refs, pc>>

\* a buffer object whose planes carry any handles and sizes that tell the
\* planes apart, and a zeroed map_info
InitMap ==
    /\ \E n \in 1 .. MaxPlanes, hs \in [Planes -> Handles] :
         bo = [ZeroBo EXCEPT !.num_planes = n, !.handles = hs,
                             !.sizes = [p \in Planes |-> 2 ^ p]]
    /\ data = [length |-> 0]
    /\ InitCommon

NextMap == DumbBoMap

SpecMap == InitMap /\ [][NextMap]_vars

(***************************************************************************)
(* Properties of drv_bo_from_format                                        *)
(***************************************************************************)
LayoutReturned == op = "drv_bo_from_format" /\ pc = "run"
LaidOut == drv_num_planes_from_format(args.format)

\* C4: after drv_bo_from_format for a format with at least one plane,
\* offsets[0] = 0, every later plane of the format starts where the plane
\* before it ends, and strides[p], sizes[p] are drv_stride_from_format and
\* drv_size_from_format of that plane.
C4_PlanesPacked ==
    (LayoutReturned /\ LaidOut >= 1) =>
        /\ bo.offsets[0] = 0
        /\ \A i \in 1 .. (LaidOut - 1) : bo.offsets[i] = bo.offsets[i - 1] + bo.sizes[i - 1]
        /\ \A p \in 0 .. (LaidOut - 1) :
              /\ bo.strides[p] = drv_stride_from_format(args.format, args.width, p)
              /\ bo.sizes[p] = drv_size_from_format(args.format, bo.strides[p], args.height, p)

\* NV12 at 4x4: plane 0 is 16 bytes at 0, plane 1 is 8 bytes at 16
C4_Witness ==
    /\ LayoutReturned /\ args.format = "NV12" /\ args.width = 4 /\ args.height = 4
    /\ bo.strides[0] = 4 /\ bo.sizes[0] = 16 /\ bo.offsets[0] = 0
    /\ bo.strides[1] = 4 /\ bo.sizes[1] = 8 /\ bo.offsets[1] = 16

\* C5: after drv_bo_from_format, total_size is the offset plus the size of
\* the last plane of the format just laid out, whatever num_planes the
\* buffer object carried.
C5_TotalSizeOfLayout ==
    (LayoutReturned /\ LaidOut >= 1) =>
        bo.total_size = bo.offsets[LaidOut - 1] + bo.sizes[LaidOut - 1]

\* C8 as stated: with an unknown format the call returns an error and the
\* geometry of the buffer object is what it was before the call.
C8_UnknownFormatFails ==
    (op = "drv_bo_from_format" /\ args.format \notin KnownFormats) =>
        /\ pc = "run" /\ ret # 0
        /\ bo = pre.bo

\* C8 amended: with an unknown format the call never returns an error: it
\* stops on assert(num_planes) with the buffer object untouched, or (NDEBUG)
\* returns 0 with strides, sizes and offsets untouched and total_size
\* overwritten from the last plane the buffer object itself counts.
C8_UnknownFormatNoError ==
    (op = "drv_bo_from_format" /\ args.format \notin KnownFormats) =>
        \/ pc = "aborted" /\ ~ndebug /\ bo = pre.bo
        \/ /\ pc = "run" /\ ndebug /\ ret = 0
           /\ bo.strides = pre.bo.strides /\ bo.sizes = pre.bo.sizes
           /\ bo.offsets = pre.bo.offsets /\ bo.num_planes = pre.bo.num_planes
           /\ bo.handles = pre.bo.handles
           /\ bo.num_planes >= 1 =>
                 bo.total_size = pre.bo.offsets[bo.num_planes - 1]
                                  + pre.bo.sizes[bo.num_planes - 1]

\* an unknown format, no assertion: 0 is returned and total_size has changed
C8_Witness ==
    /\ LayoutReturned /\ args.format \notin KnownFormats /\ ret = 0
    /\ bo.total_size # pre.bo.total_size

(***************************************************************************)
(* Properties of drv_gem_bo_destroy                                        *)
(***************************************************************************)
GemReturned == op = "drv_gem_bo_destroy"
PlaneHandles == {bo.handles[p] : p \in 0 .. (bo.num_planes - 1)}
FirstPlaneOf(h) ==
    CHOOSE p \in 0 .. (bo.num_planes - 1) :
        /\ bo.handles[p] = h
        /\ \A q \in 0 .. (p - 1) : bo.handles[q] # h
Failed == {k \in 1 .. Len(ioctls) : ioctls[k].ret # 0}

\* C1: drv_gem_bo_destroy issues one GEM_CLOSE for every distinct handle of
\* the planes, none twice, in the order the handles first occur, whatever
\* the results of the closes are.
C1_EachHandleClosedOnce ==
    GemReturned =>
        /\ Len(ioctls) = Cardinality(PlaneHandles)
        /\ {ioctls[k].handle : k \in 1 .. Len(ioctls)} = PlaneHandles
        /\ \A k \in 1 .. Len(ioctls) : ioctls[k].req = "GEM_CLOSE"
        /\ \A j, k \in 1 .. Len(ioctls) :
              j < k => FirstPlaneOf(ioctls[j].handle) < FirstPlaneOf(ioctls[k].handle)

\* planes [h1, h1, h2]: two closes, the second issued after the first failed
C1_Witness ==
    /\ GemReturned /\ bo.num_planes = 3
    /\ bo.handles[0] = bo.handles[1] /\ bo.handles[1] # bo.handles[2]
    /\ Len(ioctls) = 2 /\ ioctls[1].ret # 0
    /\ ioctls[1].handle = bo.handles[0] /\ ioctls[2].handle = bo.handles[2]

\* C2 as stated: the result is 0 when no close failed and otherwise the
\* result of the first close that failed.
C2_ReturnsFirstError ==
    GemReturned =>
        ret = IF Failed = {} THEN 0
              ELSE ioctls[CHOOSE k \in Failed : \A j \in Failed : k <= j].ret

\* C2 amended: the result is 0 when no close failed and otherwise the
\* result of the last close that failed.
C2_ReturnsLastError ==
    GemReturned =>
        ret = IF Failed = {} THEN 0
              ELSE ioctls[CHOOSE k \in Failed : \A j \in Failed : k >= j].ret

\* two closes failed with different results and the later one is returned
C2_Witness ==
    /\ GemReturned
    /\ \E j, k \in Failed : j < k /\ ioctls[j].ret # ioctls[k].ret
                            /\ (\A i \in Failed : i <= k) /\ ret = ioctls[k].ret

(***************************************************************************)
(* Properties of the reference counts                                      *)
(***************************************************************************)
BoPlanes == 0 .. (bo.num_planes - 1)
CountNow(p) == drv_get_reference_count(buffer_table, bo, p)
CountBefore(p) == drv_get_reference_count(pre.table, bo, p)
RefCall == op \in {"drv_increment_reference_count", "drv_decrement_reference_count"}

\* C3: from the empty table, the count read for a plane is the clamped
\* counter of its handle (0, +1 per increment, -1 but not below 0 per
\* decrement); it is never negative, a call on one handle leaves the counts
\* of the other handles alone, and planes with one handle read one count.
C3_CountIsClampedCounter ==
    /\ \A p \in BoPlanes : CountNow(p) = refs[bo.handles[p]] /\ CountNow(p) >= 0
    /\ \A p, q \in BoPlanes : bo.handles[p] = bo.handles[q] => CountNow(p) = CountNow(q)
    /\ RefCall => \A p \in BoPlanes :
                     bo.handles[p] # bo.handles[args.plane] => CountNow(p) = CountBefore(p)

\* a decrement at count 0 read 0 again, while another handle holds a count
C3_Witness ==
    /\ op = "drv_decrement_reference_count"
    /\ CountBefore(args.plane) = 0 /\ CountNow(args.plane) = 0
    /\ \E p \in BoPlanes : bo.handles[p] # bo.handles[args.plane] /\ CountNow(p) >= 1

DecrementAtZero == op = "drv_decrement_reference_count" /\ CountBefore(args.plane) = 0

\* C10 as stated: a decrement of a handle whose count is 0 leaves the set of
\* entries of the table as it was.
C10_TableUnchanged == DecrementAtZero => buffer_table = pre.table

\* C10 amended: a decrement of a handle whose count is 0 leaves no entry for
\* that handle (an entry holding 0 is removed, none is created) and leaves
\* the entries of every other handle as they were.
C10_ZeroEntryDropped ==
    DecrementAtZero =>
        buffer_table = {e \in pre.table : e[1] # bo.handles[args.plane]}

\* the decrement found an entry holding 0 and removed it
C10_Witness ==
    /\ DecrementAtZero
    /\ <<bo.handles[args.plane], 0>> \in pre.table
    /\ ~HasKey(buffer_table, bo.handles[args.plane])

(***************************************************************************)
(* Properties of drv_dumb_bo_create                                        *)
(***************************************************************************)
CreateReturned == op = "drv_dumb_bo_create" /\ pc = "run"

\* C9: drv_dumb_bo_create issues one CREATE_DUMB request with the width, the
\* height, the bpp of plane 0 of the format and flags 0; when the kernel
\* fails its error is returned and the buffer object is as before; when it
\* succeeds handles[0], strides[0], sizes[0] and total_size are the handle,
\* pitch and size of the answer and offsets[0] is 0.
C9_CreateFromKernelAnswer ==
    CreateReturned =>
        /\ Len(ioctls) = 1
        /\ ioctls[1].req = "CREATE_DUMB"
        /\ ioctls[1].width = args.width /\ ioctls[1].height = args.height
        /\ ioctls[1].bpp = drv_bpp_from_format(args.format, 0)
        /\ ioctls[1].flags = 0
        /\ ioctls[1].resp.ret # 0 => (ret = ioctls[1].resp.ret /\ bo = pre.bo)
        /\ ioctls[1].resp.ret = 0 =>
              /\ ret = 0
              /\ bo.handles[0] = ioctls[1].resp.handle
              /\ bo.strides[0] = ioctls[1].resp.pitch
              /\ bo.sizes[0] = ioctls[1].resp.size
              /\ bo.total_size = ioctls[1].resp.size
              /\ bo.offsets[0] = 0

\* a 32-bit format, flags given by the caller, an allocation that failed
\* over storage that held other values
C9_Witness ==
    /\ CreateReturned /\ args.format = "XRGB8888" /\ args.flags = 1
    /\ args.width # args.height
    /\ ioctls[1].bpp = 32
    /\ ret # 0 /\ bo = pre.bo /\ bo.total_size # 0

(***************************************************************************)
(* Properties of drv_dumb_bo_map                                           *)
(***************************************************************************)
MapCalled == op = "drv_dumb_bo_map"
SharedPlanes == {i \in BoPlanes : bo.handles[i] = bo.handles[args.plane]}
RECURSIVE SumSizes(_)
SumSizes(S) == IF S = {} THEN 0
               ELSE LET i == CHOOSE x \in S : TRUE IN bo.sizes[i] + SumSizes(S \ {i})
DescribeFailed == MapCalled /\ ioctls[1].ret # 0
MmapFailed == MapCalled /\ Len(ioctls) = 2 /\ ioctls[2].ret = MAP_FAILED

\* C6 as stated: after a successful map the length of the map_info is the
\* sum of the sizes of the planes that carry the handle of the mapped plane.
C6_LengthIsSharedSum ==
    (MapCalled /\ ret # MAP_FAILED) => data.length = SumSizes(SharedPlanes)

\* C6 amended: after a successful map the length of the map_info is the
\* length it had before the call plus that sum.
C6_LengthGrowsBySharedSum ==
    (MapCalled /\ ret # MAP_FAILED) => data.length = pre.length + SumSizes(SharedPlanes)

\* planes 0 and 2 share a handle that plane 1 does not: 1 + 4 bytes are
\* added to a length that was not 0
C6_Witness ==
    /\ MapCalled /\ ret # MAP_FAILED /\ bo.num_planes = 3 /\ args.plane = 2
    /\ bo.handles[0] = bo.handles[2] /\ bo.handles[1] # bo.handles[2]
    /\ pre.length # 0 /\ data.length = pre.length + 5

\* C7 as stated: the map fails when the MAP_DUMB request or mmap fails, and
\* then the buffer object and the map_info are as before the call.
C7_FailureChangesNothing ==
    MapCalled =>
        /\ (DescribeFailed \/ MmapFailed) <=> ret = MAP_FAILED
        /\ ret = MAP_FAILED => (bo = pre.bo /\ data.length = pre.length)

\* C7 amended: the map fails when the MAP_DUMB request or mmap fails; when
\* MAP_DUMB fails nothing has changed and mmap is not called; when mmap
\* fails the buffer object is as before and the length of the map_info has
\* grown by the sizes of the planes that carry the handle.
C7_FailureKeepsBoGrowsLength ==
    MapCalled =>
        /\ (DescribeFailed \/ MmapFailed) <=> ret = MAP_FAILED
        /\ bo = pre.bo
        /\ DescribeFailed => (Len(ioctls) = 1 /\ data.length = pre.length)
        /\ MmapFailed => data.length = pre.length + SumSizes(SharedPlanes)

\* mmap failed after the length had grown
C7_Witness ==
    /\ MapCalled /\ ret = MAP_FAILED
    /\ MmapFailed /\ pre.length # 0 /\ data.length > pre.length

====
